---- MODULE Spec2Model ----
(***************************************************************************)
(* Model of the newsletter digest service (src/main.py): the two request   *)
(* handlers /grab-newsletters and /summarize, the Gmail token exchange,    *)
(* the recursive MIME body extractor and the JSON-from-text extraction.    *)
(*                                                                         *)
(* One behaviour is one request.  Text that the code decodes or searches   *)
(* is a sequence of one-character strings; decoded text is a sequence of   *)
(* Unicode code points.                                                    *)
(***************************************************************************)
EXTENDS Integers, Sequences, FiniteSets, TLC

VARIABLES endpoint,     \* route of the request being served
          request,      \* its input: hours_back, the newsletter list, or a payload
          pc,           \* position of the handler
          calls,        \* external calls issued so far, with their replies
          messages,     \* grab_newsletters: `messages` of the search reply
          idx,          \* grab_newsletters: position of the loop in messages[:10]
          newsletters,  \* grab_newsletters: the list being built
          data,         \* summarize: the parsed JSON (`data`)
          response      \* the HTTP response, or the function's result

vars == <<endpoint, request, pc, calls, messages, idx, newsletters, data, response>>

-----------------------------------------------------------------------------
(* Bounds of the model *)

MaxMsgs == 12       \* most message ids in a search reply
MaxNodes == 4       \* most nodes of a payload tree given to extract_email_body
MsgNodes == 3       \* most nodes of a payload tree inside a message detail
MaxHeaders == 2     \* most headers of a message detail
MaxResp == 5        \* most tokens of a model response

(* Program constants *)

FETCH_LIMIT == 10   \* messages[:10]
HOURS_MIN == 1      \* Query(24, ge=1, le=168)
HOURS_MAX == 168
HTTP_OK == 200
HTTP_BAD_REQUEST == 400
HTTP_UNPROCESSABLE == 422   \* FastAPI's status for a query parameter that fails ge/le
HTTP_SERVER_ERROR == 500

-----------------------------------------------------------------------------
(* Python values *)

None == [tag |-> "None"]
Str(s) == [tag |-> "str", val |-> s]
Raise(e) == [tag |-> "raise", exc |-> e]

\* Truth value of `body` in `if body:` and `body or "..."`: None and "" are false.
Truthy(v) == v.tag = "str" /\ v.val # <<>>

\* `key in d` for a dict modelled as a record
Has(d, key) == key \in DOMAIN d

Min(a, b) == IF a <= b THEN a ELSE b

-----------------------------------------------------------------------------
(* base64.urlsafe_b64decode(data): the URL-safe alphabet is translated to   *)
(* the standard one, then binascii.a2b_base64 runs in its non-strict mode:  *)
(* characters outside the alphabet are skipped, a pad sequence that         *)
(* completes a quad ends the input, and an incomplete quad at the end       *)
(* raises binascii.Error.                                                   *)

B64Alphabet ==
  << "A","B","C","D","E","F","G","H","I","J","K","L","M","N","O","P",
     "Q","R","S","T","U","V","W","X","Y","Z","a","b","c","d","e","f",
     "g","h","i","j","k","l","m","n","o","p","q","r","s","t","u","v",
     "w","x","y","z","0","1","2","3","4","5","6","7","8","9","+","/" >>

UrlsafeTranslate(c) == IF c = "-" THEN "+" ELSE IF c = "_" THEN "/" ELSE c

InAlphabet(c) == \E k \in 1..64 : B64Alphabet[k] = c

B64Value(c) == (CHOOSE k \in 1..64 : B64Alphabet[k] = c) - 1

RECURSIVE a2b_base64(_, _, _, _, _, _)
a2b_base64(s, i, quad_pos, leftchar, pads, out) ==
  IF i > Len(s)
  THEN IF quad_pos # 0 THEN Raise("binascii.Error") ELSE [tag |-> "bytes", val |-> out]
  ELSE LET c == UrlsafeTranslate(s[i]) IN
    IF c = "="
    THEN IF quad_pos >= 2 /\ quad_pos + pads + 1 >= 4
         THEN [tag |-> "bytes", val |-> out]
         ELSE a2b_base64(s, i + 1, quad_pos, leftchar,
                         IF quad_pos >= 2 THEN pads + 1 ELSE pads, out)
    ELSE IF ~InAlphabet(c)
    THEN a2b_base64(s, i + 1, quad_pos, leftchar, pads, out)
    ELSE LET v == B64Value(c) IN
      CASE quad_pos = 0 -> a2b_base64(s, i + 1, 1, v, 0, out)
        [] quad_pos = 1 -> a2b_base64(s, i + 1, 2, v % 16, 0,
                                      Append(out, (leftchar * 4 + v \div 16) % 256))
        [] quad_pos = 2 -> a2b_base64(s, i + 1, 3, v % 4, 0,
                                      Append(out, (leftchar * 16 + v \div 4) % 256))
        [] quad_pos = 3 -> a2b_base64(s, i + 1, 0, 0, 0,
                                      Append(out, (leftchar * 64 + v) % 256))

urlsafe_b64decode(s) == a2b_base64(s, 1, 0, 0, 0, <<>>)

(* bytes.decode("utf-8", errors="ignore"): every well-formed UTF-8 sequence *)
(* gives its code point; a byte that starts no well-formed sequence is      *)
(* dropped.                                                                 *)

IsCont(b) == b >= 128 /\ b <= 191

\* Length of the well-formed sequence that starts at bytes[i], or 0.
Utf8Len(bytes, i) ==
  LET n == Len(bytes)
      b0 == bytes[i]
      b1 == IF i + 1 <= n THEN bytes[i + 1] ELSE 0
      b2 == IF i + 2 <= n THEN bytes[i + 2] ELSE 0
      b3 == IF i + 3 <= n THEN bytes[i + 3] ELSE 0
  IN  IF b0 < 128 THEN 1
      ELSE IF b0 >= 194 /\ b0 <= 223 THEN (IF IsCont(b1) THEN 2 ELSE 0)
      ELSE IF b0 = 224 THEN (IF b1 >= 160 /\ b1 <= 191 /\ IsCont(b2) THEN 3 ELSE 0)
      ELSE IF b0 = 237 THEN (IF b1 >= 128 /\ b1 <= 159 /\ IsCont(b2) THEN 3 ELSE 0)
      ELSE IF b0 >= 225 /\ b0 <= 239 THEN (IF IsCont(b1) /\ IsCont(b2) THEN 3 ELSE 0)
      ELSE IF b0 = 240
           THEN (IF b1 >= 144 /\ b1 <= 191 /\ IsCont(b2) /\ IsCont(b3) THEN 4 ELSE 0)
      ELSE IF b0 >= 241 /\ b0 <= 243
           THEN (IF IsCont(b1) /\ IsCont(b2) /\ IsCont(b3) THEN 4 ELSE 0)
      ELSE IF b0 = 244
           THEN (IF b1 >= 128 /\ b1 <= 143 /\ IsCont(b2) /\ IsCont(b3) THEN 4 ELSE 0)
      ELSE 0

CodePoint(bytes, i, len) ==
  CASE len = 1 -> bytes[i]
    [] len = 2 -> ((bytes[i] % 32) * 64) + (bytes[i + 1] % 64)
    [] len = 3 -> ((bytes[i] % 16) * 4096) + ((bytes[i + 1] % 64) * 64) + (bytes[i + 2] % 64)
    [] len = 4 -> ((bytes[i] % 8) * 262144) + ((bytes[i + 1] % 64) * 4096)
                   + ((bytes[i + 2] % 64) * 64) + (bytes[i + 3] % 64)

RECURSIVE utf8_decode_ignore(_, _)
utf8_decode_ignore(bytes, i) ==
  IF i > Len(bytes) THEN <<>>
  ELSE LET len == Utf8Len(bytes, i) IN
    IF len = 0 THEN utf8_decode_ignore(bytes, i + 1)
    ELSE <<CodePoint(bytes, i, len)>> \o utf8_decode_ignore(bytes, i + len)

\* base64.urlsafe_b64decode(data).decode("utf-8", errors="ignore")
DecodeBody(d) ==
  LET b == urlsafe_b64decode(d) IN
    IF b.tag = "raise" THEN b ELSE Str(utf8_decode_ignore(b.val, 1))

-----------------------------------------------------------------------------
(* extract_email_body(payload) *)

TextTypes == {"text/plain", "text/html"}

\* The leaf branch: mimeType in the two text types, body.data present and non-empty.
ExtractLeaf(payload) ==
  IF Has(payload, "mimeType") /\ payload.mimeType \in TextTypes
  THEN IF Has(payload, "body") /\ Has(payload.body, "data") /\ payload.body.data # <<>>
       THEN DecodeBody(payload.body.data)
       ELSE None
  ELSE None

RECURSIVE extract_email_body(_), ExtractParts(_, _)

\* for part in payload['parts']: body = extract_email_body(part); if body: return body
ExtractParts(parts, i) ==
  IF i > Len(parts) THEN None
  ELSE LET body == extract_email_body(parts[i]) IN
    IF body.tag = "raise" \/ Truthy(body) THEN body ELSE ExtractParts(parts, i + 1)

extract_email_body(payload) ==
  IF Has(payload, "parts")
  THEN ExtractParts(payload.parts, 1)
  ELSE ExtractLeaf(payload)

-----------------------------------------------------------------------------
(* Inputs: payload trees, headers, message details *)

SeqsUpTo(S, n) == UNION {[1..k -> S] : k \in 0..n}

\* body.data samples (base64url text): "SGVsbG8=" is Hello, "SGk=" is Hi, "/w==" is
\* the single byte 0xFF (no UTF-8 text), "SGk" lacks its padding.
DataHello == <<"S", "G", "V", "s", "b", "G", "8", "=">>
DataHi == <<"S", "G", "k", "=">>
DataNoText == <<"/", "w", "=", "=">>
DataBadPadding == <<"S", "G", "k">>

TextHello == <<72, 101, 108, 108, 111>>
TextHi == <<72, 105>>

LeafHello == [mimeType |-> "text/plain", body |-> [data |-> DataHello]]
LeafHi == [mimeType |-> "text/html", body |-> [data |-> DataHi]]
LeafImage == [mimeType |-> "image/png", body |-> [data |-> DataHi]]
LeafNoData == [mimeType |-> "text/plain", body |-> [size |-> 0]]
LeafEmptyData == [mimeType |-> "text/html", body |-> [data |-> <<>>]]
LeafNoText == [mimeType |-> "text/plain", body |-> [data |-> DataNoText]]
LeafBadPadding == [mimeType |-> "text/plain", body |-> [data |-> DataBadPadding]]
LeafBare == [partId |-> "0"]

Leaves == {LeafHello, LeafHi, LeafImage, LeafNoData, LeafEmptyData, LeafNoText,
           LeafBadPadding, LeafBare}

Multipart(parts) == [mimeType |-> "multipart/mixed", parts |-> parts]

RECURSIVE TreesOfSize(_), ForestsOfSize(_)
TreesOfSize(n) ==
  IF n = 1 THEN Leaves \cup {Multipart(<<>>)}
  ELSE {Multipart(f) : f \in ForestsOfSize(n - 1)}

ForestsOfSize(m) ==
  IF m = 0 THEN {<<>>}
  ELSE UNION {{<<t>> \o f : t \in TreesOfSize(k), f \in ForestsOfSize(m - k)} : k \in 1..m}

TreesUpTo(n) == UNION {TreesOfSize(k) : k \in 1..n}

HeaderKinds == {[name |-> "Subject", value |-> "A"], [name |-> "subject", value |-> "c"],
                [name |-> "From", value |-> "X"], [name |-> "From", value |-> "Y"]}

\* payload with its `headers` list
WithHeaders(node, hs) ==
  [k \in DOMAIN node \cup {"headers"} |-> IF k = "headers" THEN hs ELSE node[k]]

\* A dict with none of the keys the code reads: the default of .get("payload", {}).
EmptyDict == [snippet |-> ""]

\* Message details for the request flow: one well-formed message, one whose body
\* data lacks its padding.
DetailGood ==
  [payload |-> WithHeaders(LeafHello, <<[name |-> "Subject", value |-> "A"],
                                        [name |-> "From", value |-> "X"]>>)]
DetailBadPadding ==
  [payload |-> WithHeaders(LeafBadPadding, <<[name |-> "Subject", value |-> "B"],
                                             [name |-> "From", value |-> "Y"]>>)]
FlowDetails == {DetailGood, DetailBadPadding}

\* Message details for the per-message conversion: every small payload tree with
\* every short header list, with and without `headers`, and a detail without payload.
RichDetails ==
  {[payload |-> WithHeaders(t, hs)] :
      t \in TreesUpTo(MsgNodes), hs \in SeqsUpTo(HeaderKinds, MaxHeaders)}
  \cup {[payload |-> t] : t \in TreesUpTo(MsgNodes)}
  \cup {EmptyDict}

\* Status codes the upstream services answer with.
TokenStatuses == {200, 401}
SearchStatuses == {200, 403}
DetailStatuses == {200, 404}

\* Search replies: n ids, oldest-first or newest-first numbering.
Ascending(n) == [i \in 1..n |-> i]
Descending(n) == [i \in 1..n |-> n + 1 - i]
SearchResults == {Ascending(n) : n \in 0..MaxMsgs} \cup {Descending(n) : n \in 0..MaxMsgs}
SingleResults == {<<>>, <<1>>}

HoursBackInputs == {0, 1, 168, 169}

-----------------------------------------------------------------------------
(* grab_newsletters *)

\* "[No content found]"
NO_CONTENT == <<91, 78, 111, 32, 99, 111, 110, 116, 101, 110, 116, 32,
                102, 111, 117, 110, 100, 93>>

NoResponse == [tag |-> "none"]
Http(status, detail) == [tag |-> "http", status |-> status, detail |-> detail]
HttpNewsletters(ns) == [tag |-> "http", status |-> HTTP_OK, newsletters |-> ns]
\* An exception that is no HTTPException leaves the handler: the server answers 500.
Unhandled(exc) == [tag |-> "http", status |-> HTTP_SERVER_ERROR, detail |-> exc]

\* The HTTPExceptions the handlers raise
TokenError == Http(HTTP_SERVER_ERROR, "Failed to get Gmail access token.")
SearchErrorUpstreamStatus == Http(403, "Failed to fetch newsletters from Gmail.")
SearchError == Http(HTTP_SERVER_ERROR, "Failed to fetch newsletters from Gmail.")
NoNewslettersError == Http(HTTP_BAD_REQUEST, "No newsletters provided")
ParseError == Http(HTTP_SERVER_ERROR, "Failed to parse JSON from GPT")

\* hours_back: int = Query(24, ge=1, le=168)
HoursBackUnchecked(h) == TRUE
HoursBackValid(h) == h >= HOURS_MIN /\ h <= HOURS_MAX

\* if response.status_code == 200 (get_gmail_access_token)
TokenGrantedUnchecked(st) == TRUE
TokenGranted(st) == st = HTTP_OK

Lower(name) ==
  CASE name = "Subject" -> "subject" [] name = "From" -> "from" [] OTHER -> name

HeaderValueAnyCase(hs, name, default) ==
  IF \E i \in 1..Len(hs) : Lower(hs[i].name) = Lower(name)
  THEN hs[CHOOSE i \in 1..Len(hs) :
            /\ Lower(hs[i].name) = Lower(name)
            /\ \A j \in 1..(i - 1) : Lower(hs[j].name) # Lower(name)].value
  ELSE default

\* next((h['value'] for h in email_headers if h['name'] == name), default)
HeaderValue(hs, name, default) ==
  IF \E i \in 1..Len(hs) : hs[i].name = name
  THEN hs[CHOOSE i \in 1..Len(hs) :
            hs[i].name = name /\ \A j \in 1..(i - 1) : hs[j].name # name].value
  ELSE default

PayloadOf(msg_data) == IF Has(msg_data, "payload") THEN msg_data.payload ELSE EmptyDict
HeadersOf(msg_data) ==
  IF Has(PayloadOf(msg_data), "headers") THEN PayloadOf(msg_data).headers ELSE <<>>

\* extract_email_body(payload) or "[No content found]"
ContentOr(body) == IF Truthy(body) THEN body.val ELSE NO_CONTENT

\* The loop body after a 200 detail reply: the newsletter record, or the exception
\* that extract_email_body lets through.
MakeNewsletter(msg_data) ==
  LET body == extract_email_body(PayloadOf(msg_data)) IN
    IF body.tag = "raise" THEN body
    ELSE [tag |-> "newsletter",
          val |-> [subject |-> HeaderValue(HeadersOf(msg_data), "Subject", "No Subject"),
                   sender |-> HeaderValue(HeadersOf(msg_data), "From", "Unknown Sender"),
                   content |-> ContentOr(body)]]

\* messages[:10]
FetchSlice(msgs) == SubSeq(msgs, 1, Min(Len(msgs), FETCH_LIMIT))

InitVars(ep, req) ==
  /\ endpoint = ep
  /\ request = req
  /\ pc = "received"
  /\ calls = <<>>
  /\ messages = <<>>
  /\ idx = 0
  /\ newsletters = <<>>
  /\ data = None
  /\ response = NoResponse

Finish(resp) == pc' = "done" /\ response' = resp

\* The framework checks hours_back against ge/le before the handler runs.
ValidateQuery ==
  /\ endpoint = "grab_newsletters" /\ pc = "received"
  /\ IF HoursBackValid(request.hours_back)
     THEN pc' = "token" /\ UNCHANGED response
     ELSE Finish(Http(HTTP_UNPROCESSABLE, "hours_back out of range"))
  /\ UNCHANGED <<endpoint, request, calls, messages, idx, newsletters, data>>

\* get_gmail_access_token(): one POST to the token endpoint
GetGmailAccessToken ==
  /\ endpoint = "grab_newsletters" /\ pc = "token"
  /\ \E st \in TokenStatuses :
       /\ calls' = Append(calls, [call |-> "token", status |-> st])
       /\ IF TokenGranted(st)
          THEN pc' = "search" /\ UNCHANGED response
          ELSE Finish(TokenError)
  /\ UNCHANGED <<endpoint, request, messages, idx, newsletters, data>>

\* The message list request, and the two returns that follow it at once.
SearchMessages(results) ==
  /\ endpoint = "grab_newsletters" /\ pc = "search"
  /\ \E st \in SearchStatuses, msgs \in results :
       /\ calls' = Append(calls, [call |-> "search", status |-> st])
       /\ IF st # HTTP_OK
          THEN /\ Finish(SearchError)
               /\ UNCHANGED <<messages, idx>>
          ELSE IF msgs = <<>>
          THEN /\ Finish(HttpNewsletters(<<>>))
               /\ UNCHANGED idx
               /\ messages' = msgs
          ELSE /\ pc' = "loop" /\ UNCHANGED response
               /\ messages' = msgs
               /\ idx' = 1
  /\ UNCHANGED <<endpoint, request, newsletters, data>>

\* One iteration of `for message in messages[:10]`, and the return after the last.
FetchDetail(details) ==
  /\ endpoint = "grab_newsletters" /\ pc = "loop"
  /\ idx <= Len(FetchSlice(messages))
  /\ LET id == FetchSlice(messages)[idx]
         last == idx = Len(FetchSlice(messages))
         Continue(list) ==
           /\ newsletters' = list
           /\ idx' = idx + 1
           /\ IF last THEN Finish(HttpNewsletters(list)) ELSE UNCHANGED <<pc, response>>
     IN \/ \E st \in DetailStatuses \ {HTTP_OK} :
             \* if msg_response.status_code != 200: continue
             /\ calls' = Append(calls, [call |-> "detail", id |-> id, status |-> st])
             /\ Continue(newsletters)
        \/ \E msg_data \in details :
             LET made == MakeNewsletter(msg_data) IN
               /\ calls' = Append(calls, [call |-> "detail", id |-> id, status |-> HTTP_OK,
                                          msg_data |-> msg_data])
               /\ IF made.tag = "raise"
                  THEN Finish(Unhandled(made.exc)) /\ UNCHANGED <<idx, newsletters>>
                  ELSE Continue(Append(newsletters, made.val))
  /\ UNCHANGED <<endpoint, request, messages, data>>

-----------------------------------------------------------------------------
(* summarize *)

\* A model response is a sequence of tokens: the two braces, "w" a word of prose,
\* and three JSON members written without braces: "t" is "tldr": ["..."],
\* "b" is "tldr": "..." (a string, not a list), "p" is "topics": [].  A brace pair
\* inside an object is a member whose value is an object.
RespChars == {"{", "}", "w", "t", "p", "b"}
LlmTexts == SeqsUpTo(RespChars, MaxResp)

Newsletter1 == [subject |-> "A", sender |-> "X", content |-> TextHello]
Newsletter2 == [subject |-> "B", sender |-> "Y", content |-> NO_CONTENT]
NewsletterInputs == {<<>>, <<Newsletter1>>, <<Newsletter1, Newsletter2>>}

\* The prompt: the fixed instructions, then one block per newsletter.
BuildPrompt(ns) == [instructions |-> "fixed", blocks |-> ns]

Opens(text) == {i \in 1..Len(text) : text[i] = "{"}
Closes(text) == {j \in 1..Len(text) : text[j] = "}"}
SetMin(S) == CHOOSE x \in S : \A y \in S : x <= y
SetMax(S) == CHOOSE x \in S : \A y \in S : x >= y

\* The lazy pattern \{.*?\}: from the first "{" to the first "}" after it.
ReSearchLazy(text) ==
  IF \E i \in Opens(text), j \in Closes(text) : i < j
  THEN Str(SubSeq(text, SetMin(Opens(text)),
                  SetMin({j \in Closes(text) : j > SetMin(Opens(text))})))
  ELSE None

\* re.search(r'\{.*\}', text, re.S): from the first "{" that has a "}" after it to
\* the last "}" of the text (".*" is greedy and, with re.S, crosses lines).
ReSearch(text) ==
  IF \E i \in Opens(text), j \in Closes(text) : i < j
  THEN Str(SubSeq(text, SetMin(Opens(text)), SetMax(Closes(text))))
  ELSE None

\* json.loads on the token text of an object.  ParseMembers reads the members after
\* an opening brace up to its closing brace.
ParseFail == [ok |-> FALSE]

RECURSIVE ParseMembers(_, _, _)
ParseMembers(s, i, acc) ==
  IF i > Len(s) THEN ParseFail
  ELSE CASE s[i] = "}" -> [ok |-> TRUE, val |-> acc, next |-> i + 1]
         [] s[i] = "t" ->
              ParseMembers(s, i + 1, Append(acc, [key |-> "tldr", kind |-> "strings"]))
         [] s[i] = "b" ->
              ParseMembers(s, i + 1, Append(acc, [key |-> "tldr", kind |-> "string"]))
         [] s[i] = "p" ->
              ParseMembers(s, i + 1, Append(acc, [key |-> "topics", kind |-> "objects"]))
         [] s[i] = "{" ->
              LET r == ParseMembers(s, i + 1, <<>>) IN
                IF r.ok
                THEN ParseMembers(s, r.next,
                       Append(acc, [key |-> "nested", kind |-> "object", members |-> r.val]))
                ELSE r
         [] OTHER -> ParseFail

json_loads(s) ==
  IF s # <<>> /\ s[1] = "{"
  THEN LET r == ParseMembers(s, 2, <<>>) IN
         IF r.ok /\ r.next = Len(s) + 1
         THEN [tag |-> "dict", val |-> r.val]
         ELSE Raise("JSONDecodeError")
  ELSE Raise("JSONDecodeError")

\* The try block: search, group(0), json.loads; any exception becomes a 500.
ParseReply(text) ==
  LET m == ReSearch(text) IN
    IF m = None THEN Raise("AttributeError") ELSE json_loads(m.val)

\* The value a dict holds for a key: the last member with that key wins.
DictHas(members, key) == \E i \in 1..Len(members) : members[i].key = key
DictGet(members, key) ==
  members[SetMax({i \in 1..Len(members) : members[i].key = key})]

KindOf(members, key) ==
  IF DictHas(members, key) THEN DictGet(members, key).kind ELSE "absent"

\* response_model=SummarizationResponse: tldr: List[str], topics: List[Dict[str, Any]]
ResponseModelUnchecked(members) == TRUE
ResponseModelValid(members) ==
  /\ DictHas(members, "tldr") /\ DictGet(members, "tldr").kind = "strings"
  /\ DictHas(members, "topics") /\ DictGet(members, "topics").kind = "objects"

HttpDigest(members) ==
  [tag |-> "http", status |-> HTTP_OK,
   digest |-> [tldr |-> KindOf(members, "tldr"), topics |-> KindOf(members, "topics")]]

\* if not req.newsletters
NoNewsletters(ns) == ns = <<>>

Summarize ==
  /\ endpoint = "summarize" /\ pc = "received"
  /\ IF NoNewsletters(request.newsletters)
     THEN /\ Finish(NoNewslettersError)
          /\ UNCHANGED <<calls, data>>
     ELSE \/ \* the completion call raises
             /\ calls' = Append(calls, [call |-> "llm", ok |-> FALSE,
                                        prompt |-> BuildPrompt(request.newsletters)])
             /\ Finish(Unhandled("APIError"))
             /\ UNCHANGED data
          \/ \E text \in LlmTexts :
               LET parsed == ParseReply(text) IN
                 /\ calls' = Append(calls, [call |-> "llm", ok |-> TRUE, text |-> text,
                                            prompt |-> BuildPrompt(request.newsletters)])
                 /\ IF parsed.tag = "raise"
                    THEN /\ Finish(ParseError)
                         /\ UNCHANGED data
                    ELSE /\ data' = parsed
                         /\ IF ResponseModelValid(parsed.val)
                            THEN Finish(HttpDigest(parsed.val))
                            ELSE Finish(Unhandled("ResponseValidationError"))
  /\ UNCHANGED <<endpoint, request, messages, idx, newsletters>>

-----------------------------------------------------------------------------
(* Specifications *)

Init ==
  \/ \E h \in HoursBackInputs : InitVars("grab_newsletters", [hours_back |-> h])
  \/ \E ns \in NewsletterInputs : InitVars("summarize", [newsletters |-> ns])

Next ==
  \/ ValidateQuery
  \/ GetGmailAccessToken
  \/ SearchMessages(SearchResults)
  \/ FetchDetail(FlowDetails)
  \/ Summarize

Spec == Init /\ [][Next]_vars

\* extract_email_body applied to a payload on its own
ExtractBody ==
  /\ endpoint = "extract_email_body" /\ pc = "received"
  /\ Finish(extract_email_body(request.payload))
  /\ UNCHANGED <<endpoint, request, calls, messages, idx, newsletters, data>>

InitBody == \E p \in TreesUpTo(MaxNodes) : InitVars("extract_email_body", [payload |-> p])
NextBody == ExtractBody
SpecBody == InitBody /\ [][NextBody]_vars

InitMessage == InitVars("grab_newsletters", [hours_back |-> 24])
NextMessage ==
  \/ ValidateQuery
  \/ GetGmailAccessToken
  \/ SearchMessages(SingleResults)
  \/ FetchDetail(RichDetails)
SpecMessage == InitMessage /\ [][NextMessage]_vars

-----------------------------------------------------------------------------
(* Vocabulary of the properties *)

Done == pc = "done"
Grab == endpoint = "grab_newsletters"
Answered(status) == Done /\ response.tag = "http" /\ response.status = status

CallsOf(kind) == SelectSeq(calls, LAMBDA c : c.call = kind)
DetailIds == [k \in 1..Len(CallsOf("detail")) |-> CallsOf("detail")[k].id]
OkDetails == SelectSeq(CallsOf("detail"), LAMBDA c : c.status = 200)
TokenOk == CallsOf("token") # <<>> /\ CallsOf("token")[1].status = 200
SearchOk == CallsOf("search") # <<>> /\ CallsOf("search")[1].status = 200

IsPrefix(s, t) == Len(s) <= Len(t) /\ \A k \in 1..Len(s) : s[k] = t[k]

\* The first min(N, 10) ids of the search reply
FirstTen(msgs) == [k \in 1..(IF Len(msgs) < 10 THEN Len(msgs) ELSE 10) |-> msgs[k]]

\* The leaves of a payload tree in pre-order
RECURSIVE PreOrderLeaves(_), PreOrderForest(_, _)
PreOrderForest(parts, i) ==
  IF i > Len(parts) THEN <<>>
  ELSE PreOrderLeaves(parts[i]) \o PreOrderForest(parts, i + 1)
PreOrderLeaves(node) ==
  IF "parts" \in DOMAIN node THEN PreOrderForest(node.parts, 1) ELSE <<node>>

\* A leaf with mimeType text/plain or text/html and non-empty body.data
TextualLeaf(node) ==
  /\ "mimeType" \in DOMAIN node /\ node.mimeType \in {"text/plain", "text/html"}
  /\ "body" \in DOMAIN node /\ "data" \in DOMAIN node.body /\ node.body.data # <<>>

TextualLeaves(payload) == SelectSeq(PreOrderLeaves(payload), TextualLeaf)

ValidlyEncoded(d) == urlsafe_b64decode(d).tag = "bytes"

-----------------------------------------------------------------------------
(* Properties *)

\* C1: in a /grab-newsletters request whose search succeeds with N ids, the detail
\* requests issued are exactly those for the first min(N, 10) ids, in the provider's
\* order, each once, never one for a later id; for N = 0 there is none and the call
\* succeeds with an empty list.
C1_DetailRequestsExactlyFirstTen ==
  (Grab /\ SearchOk) =>
    /\ IsPrefix(DetailIds, FirstTen(messages))
    /\ Done => DetailIds = FirstTen(messages)
    /\ (Done /\ messages = <<>>) =>
          (response.tag = "http" /\ response.status = 200 /\ response.newsletters = <<>>)

\* What holds of the detail requests even when the loop is left by an exception: they
\* are always a prefix of the first min(N, 10) ids.
DetailRequestsPrefixOfFirstTen ==
  (Grab /\ SearchOk) => IsPrefix(DetailIds, FirstTen(messages))

\* C2: once token exchange and search have succeeded, the call succeeds whatever the
\* detail fetches answer, and returns one newsletter per first-ten id whose detail
\* fetch succeeded, in order.
C2_DetailFailuresOnlyShrinkResult ==
  (Grab /\ Done /\ TokenOk /\ SearchOk) =>
    /\ response.tag = "http" /\ response.status = 200
    /\ Len(CallsOf("detail")) = Len(FirstTen(messages))
    /\ Len(response.newsletters) = Len(OkDetails)
    /\ \A k \in 1..Len(OkDetails) :
         response.newsletters[k] = MakeNewsletter(OkDetails[k].msg_data).val

\* C3: the calls are issued in the order token, search, details, none of them twice;
\* after a non-200 token reply nothing else is called, after a non-200 search reply no
\* detail is fetched, and both requests end in an error with no newsletter list.
CallRank(c) == CASE c.call = "token" -> 1 [] c.call = "search" -> 2 [] OTHER -> 3
C3_CallOrderAndFatalFailures ==
  Grab =>
    /\ \A i, j \in 1..Len(calls) : i < j => CallRank(calls[i]) <= CallRank(calls[j])
    /\ Len(CallsOf("token")) <= 1 /\ Len(CallsOf("search")) <= 1
    /\ \A i, j \in 1..Len(DetailIds) : i # j => DetailIds[i] # DetailIds[j]
    /\ (CallsOf("token") # <<>> /\ ~TokenOk) =>
         /\ Len(calls) = 1
         /\ Done /\ response.status >= 400 /\ "newsletters" \notin DOMAIN response
    /\ (CallsOf("search") # <<>> /\ ~SearchOk) =>
         /\ CallsOf("detail") = <<>>
         /\ Done /\ response.status >= 400 /\ "newsletters" \notin DOMAIN response
    /\ CallsOf("search") # <<>> => TokenOk
    /\ CallsOf("detail") # <<>> => SearchOk

C3_Witness ==
  /\ Grab /\ Done /\ Len(calls) = 2
  /\ calls[1].call = "token" /\ calls[2].call = "search" /\ calls[2].status = 403
  /\ response.status = 500

\* C4: an hours_back outside [1,168] and an empty newsletter list are rejected before
\* any external call is issued.
C4_ValidationBeforeCalls ==
  /\ (Grab /\ (request.hours_back < 1 \/ request.hours_back > 168)) =>
        /\ calls = <<>>
        /\ Done => (response.status >= 400 /\ response.status < 500)
  /\ (endpoint = "summarize" /\ request.newsletters = <<>>) =>
        /\ calls = <<>>
        /\ Done => (response.status >= 400 /\ response.status < 500)

C4_Witness ==
  Grab /\ request.hours_back = 169 /\ Done /\ calls = <<>> /\ response.status >= 400

\* Upstream failures of a request, read off the call log
TokenFailed == CallsOf("token") # <<>> /\ ~TokenOk
SearchFailed == CallsOf("search") # <<>> /\ ~SearchOk
NoJsonInReply ==
  /\ CallsOf("llm") # <<>> /\ CallsOf("llm")[1].ok
  /\ ParseReply(CallsOf("llm")[1].text).tag = "raise"
UpstreamFailed == TokenFailed \/ SearchFailed \/ NoJsonInReply

\* C5 as claimed: bad client input (an empty newsletter list, an out-of-range
\* hours_back) is answered 400, every upstream failure 500.
C5_StatusTaxonomyAsClaimed ==
  Done =>
    /\ (endpoint = "summarize" /\ request.newsletters = <<>>) => response.status = 400
    /\ (Grab /\ (request.hours_back < 1 \/ request.hours_back > 168)) =>
          response.status = 400
    /\ UpstreamFailed => response.status = 500

\* C5 amended: an empty newsletter list is answered 400, an out-of-range hours_back
\* 422 (the framework's status for a rejected query parameter), every upstream
\* failure 500.
C5_StatusTaxonomy ==
  Done =>
    /\ (endpoint = "summarize" /\ request.newsletters = <<>>) => response.status = 400
    /\ (Grab /\ (request.hours_back < 1 \/ request.hours_back > 168)) =>
          response.status = 422
    /\ UpstreamFailed => response.status = 500

C5_Witness ==
  Grab /\ Done /\ request.hours_back = 0 /\ response.status = 422

\* C6: extract_email_body returns the decoded body of the first leaf in pre-order
\* that has a text mimeType and non-empty body.data, and None exactly when the tree
\* has no such leaf.
C6_FirstTextualLeafInPreOrder ==
  (endpoint = "extract_email_body" /\ Done) =>
    LET leaves == TextualLeaves(request.payload) IN
      IF leaves = <<>>
      THEN response = None
      ELSE /\ response.tag = "str"
           /\ ValidlyEncoded(leaves[1].body.data)
           /\ response = DecodeBody(leaves[1].body.data)

\* C7: body data that is not validly encoded never fails the request: the message's
\* content is the body of another textual part or the placeholder.
C7_DecodingFailureNotPropagated ==
  (Grab /\ Done) =>
    \A k \in 1..Len(OkDetails) :
      LET leaves == TextualLeaves(PayloadOf(OkDetails[k].msg_data))
          bad == {i \in 1..Len(leaves) : ~ValidlyEncoded(leaves[i].body.data)}
          good == {i \in 1..Len(leaves) : ValidlyEncoded(leaves[i].body.data)}
      IN bad # {} =>
           /\ response.tag = "http" /\ response.status = 200
           /\ Len(response.newsletters) >= k
           /\ \/ response.newsletters[k].content = NO_CONTENT
              \/ \E i \in good :
                   Str(response.newsletters[k].content) = DecodeBody(leaves[i].body.data)

\* C8: when the model response is brace-free prose around one well-formed JSON
\* object, the value parsed is exactly that object, whatever the prose.
Braceless(s) == \A k \in 1..Len(s) : s[k] # "{" /\ s[k] # "}"
C8_ObjectExtractedFromProse ==
  (endpoint = "summarize" /\ Done /\ CallsOf("llm") # <<>> /\ CallsOf("llm")[1].ok) =>
    LET text == CallsOf("llm")[1].text IN
      \A i, j \in 1..Len(text) :
        ( /\ i <= j
          /\ Braceless(SubSeq(text, 1, i - 1))
          /\ Braceless(SubSeq(text, j + 1, Len(text)))
          /\ json_loads(SubSeq(text, i, j)).tag = "dict" )
        => data = json_loads(SubSeq(text, i, j))

C8_Witness ==
  /\ endpoint = "summarize" /\ Done
  /\ CallsOf("llm") # <<>> /\ CallsOf("llm")[1].ok
  /\ CallsOf("llm")[1].text = <<"w", "{", "t", "}", "w">>
  /\ data = [tag |-> "dict", val |-> <<[key |-> "tldr", kind |-> "strings"]>>]

\* C9: a /summarize request ends in a success that carries both tldr (strings) and
\* topics (objects), or in an error without a digest; a reply with no brace pair, an
\* unparsable span, or an object missing tldr or topics ends in the error.
C9_NoPartialDigest ==
  (endpoint = "summarize" /\ Done) =>
    /\ response.tag = "http"
    /\ IF response.status = 200
       THEN /\ "digest" \in DOMAIN response
            /\ response.digest.tldr = "strings" /\ response.digest.topics = "objects"
       ELSE response.status >= 400 /\ "digest" \notin DOMAIN response
    /\ NoJsonInReply => response.status >= 400
    /\ (data.tag = "dict" /\ (~DictHas(data.val, "tldr") \/ ~DictHas(data.val, "topics")))
         => response.status >= 400

C9_Witness ==
  /\ endpoint = "summarize" /\ Done
  /\ data.tag = "dict" /\ DictHas(data.val, "tldr") /\ ~DictHas(data.val, "topics")
  /\ response.status = 500

\* C10: every newsletter returned has three string fields: subject is the value of
\* the first header named exactly Subject, else "No Subject"; sender that of the
\* first header named exactly From, else "Unknown Sender"; content the extracted
\* body, else "[No content found]".
FirstNamed(hs, name, default) ==
  LET at == {i \in 1..Len(hs) : hs[i].name = name} IN
    IF at = {} THEN default ELSE hs[SetMin(at)].value

C10_NewsletterFields ==
  (Grab /\ Done /\ response.status = 200) =>
    /\ Len(response.newsletters) = Len(OkDetails)
    /\ \A k \in 1..Len(OkDetails) :
         LET n == response.newsletters[k]
             m == OkDetails[k].msg_data
             payload == IF "payload" \in DOMAIN m THEN m.payload ELSE EmptyDict
             hs == IF "headers" \in DOMAIN payload THEN payload.headers ELSE <<>>
             body == extract_email_body(payload)
         IN /\ DOMAIN n = {"subject", "sender", "content"}
            /\ n.subject \in STRING /\ n.sender \in STRING /\ n.content \in Seq(Nat)
            /\ n.subject = FirstNamed(hs, "Subject", "No Subject")
            /\ n.sender = FirstNamed(hs, "From", "Unknown Sender")
            /\ n.content = (IF body = None \/ body = Str(<<>>)
                               THEN <<91, 78, 111, 32, 99, 111, 110, 116, 101, 110, 116, 32,
                                      102, 111, 117, 110, 100, 93>>
                               ELSE body.val)

C10_Witness ==
  /\ Grab /\ Done /\ response.status = 200 /\ Len(response.newsletters) = 1
  /\ response.newsletters[1].subject = "No Subject"
  /\ response.newsletters[1].sender = "Y"
  /\ OkDetails[1].msg_data.payload.headers =
        <<[name |-> "subject", value |-> "c"], [name |-> "From", value |-> "Y"]>>

====
